---- MODULE Spec2Model ----
(***************************************************************************)
(* The scheduled differential query engine of osquery:                     *)
(*   osquery/dispatcher/scheduler.cpp  (monitor, launchQuery,              *)
(*                                      SchedulerRunner::start)            *)
(* The differential store (Query::addNewResults), the interruptible sleep  *)
(* and the configuration provider are collaborators whose code is not in   *)
(* the tree; they are modelled from their documented contracts.            *)
(***************************************************************************)
EXTENDS Integers, FiniteSets, Sequences, TLC

\* ------------------------------------------------------------------ bounds
\* Largest schedule_timeout explored (0 stands for "no limit").
MaxTimeout == 1
\* Largest wall-clock second-of-minute explored at the entry of start().
MaxSec == 1
\* Cap on the number of tick iterations explored in one behaviour.
MaxTicks == 2
\* Cap on the number of Request::call invocations explored.
MaxCalls == 2
\* Largest number of SchedulerRunner services registered with the Dispatcher.
MaxRunners == 2

\* ------------------------------------------------------------ value domains
\* The rows a query can return; a RowSet is a set of rows.
Rows == {"A", "B"}
RowSets == SUBSET Rows

\* Query names, in the iteration order of the schedule map (sorted by key).
NameOrder == <<"q0", "q1", "q2">>
NameSet == {"q0", "q1", "q2"}

\* Query texts; two scheduled queries may carry the same text.
QueryTexts == {"select_x"}

\* Keys of the differential store's backend.
Keys == NameSet \cup QueryTexts

EmptyDiff == [added |-> {}, removed |-> {}]

\* A freshly constructed QueryLogItem, stamped with the query name.
NewItem(name) == [name |-> name, results |-> EmptyDiff, snapshot_results |-> {}]

\* ScheduledQuery values: options is a map of named booleans.
SQ(n, opts) == [query |-> "select_x", splayed_interval |-> n, options |-> opts]
NoOptions == [k \in {} |-> TRUE]

\* The schedules as they are written in the configuration; q0 is malformed:
\* its splayed interval is not positive.
RawSchedules ==
  { [q0 |-> SQ(0, NoOptions),
     q1 |-> SQ(2, NoOptions), q2 |-> SQ(1, [snapshot |-> TRUE])],
    [q1 |-> SQ(1, [removed |-> FALSE]), q2 |-> SQ(2, [snapshot |-> FALSE])] }

\* A slip: the configuration provider keeps every query it is given.
LoadScheduleUnchecked(raw) == raw

\* The configuration provider builds a schedule: it rejects a query whose
\* splayed interval is not positive.
LoadSchedule(raw) ==
  [n \in {m \in DOMAIN raw : raw[m].splayed_interval > 0} |-> raw[n]]

\* The schedules the configuration provider can supply.
Schedules == {LoadSchedule(raw) : raw \in RawSchedules}

\* No schedule in sight: no ConfigDataInstance is alive.
NoSchedule == [n \in {} |-> SQ(1, NoOptions)]

\* The names of a schedule in map iteration order.
ScheduleOrder(s) == SelectSeq(NameOrder, LAMBDA n : n \in DOMAIN s)

\* No row set on record.
NoRows == [found |-> FALSE, rows |-> {}]

\* An empty backend: no baseline for any key.
EmptyStore == [k \in Keys |-> NoRows]

\* ---------------------------------------------------------------- state
VARIABLES
  timeout_,        \* SchedulerRunner::timeout_
  enable_monitor,  \* FLAGS_enable_monitor
  schedule,        \* the configuration provider's current schedule
  db,              \* the differential store's backend: key -> baseline
  pc,              \* position of start(): init, check, scan, sleep, done
  i,               \* the tick counter of start()
  cursor,          \* position of the range-for over config.schedule()
  snap,            \* the schedule seen through the ConfigDataInstance
  held,            \* TRUE while the ConfigDataInstance is alive
  interrupted,     \* an external cancellation has been requested
  exitBy,          \* how start() ended: none, timeout, interrupted
  \* observation of the run (history)
  ticks,           \* tick iterations begun so far
  launched,        \* name -> launchQuery calls during the current scan
  failed,          \* names whose execution failed during the current scan
  last,            \* the effects of the latest launchQuery call of the scan
  lastGood,        \* name -> rows of the last run that executed and stored
  seen,            \* name -> rows of the last snapshot item sent for it
  prev,            \* what seen held for last.name before that call
  intrAtSleep,     \* the cancellation arrived during the inter-tick sleep
  \* requests.h: one Request object and its latest call(params)
  calls,           \* call(params) invocations so far
  callParams,      \* the params of the latest call
  serializerAnswer,\* what serializer_->serialize answered in that call
  transportAnswer, \* the status the transport answers to a sendRequest
  sent,            \* the bodies given to sendRequest during that call
  ret,             \* the Status that call returned
  \* several SchedulerRunner services sharing the differential store
  runners,         \* SchedulerRunner services registered so far
  rpc,             \* runner -> idle, or ran (executed, not yet stored)
  rrows,           \* runner -> the rows its execution returned
  began,           \* runner -> the baseline when its launchQuery began
  txn              \* the latest addNewResults call; overtaken: another
                   \* runner persisted since this run began

loopVars == <<timeout_, enable_monitor, schedule, pc, i, cursor, snap, held,
              interrupted, exitBy, ticks, launched, failed, last, lastGood,
              seen, prev, intrAtSleep>>
requestVars == <<calls, callParams, serializerAnswer, transportAnswer, sent,
                 ret>>
runnerVars == <<runners, rpc, rrows, began, txn>>
sideVars == <<requestVars, runnerVars>>

vars == <<timeout_, enable_monitor, schedule, db, pc, i, cursor, snap, held,
          interrupted, exitBy, ticks, launched, failed, last, lastGood,
          seen, prev, intrAtSleep, calls, callParams, serializerAnswer,
          transportAnswer, sent, ret, runners, rpc, rrows, began, txn>>

\* ------------------------------------------------ collaborators (contracts)
\* The query-execution collaborator: the outcome o of one execution is an
\* error, or a row set.
SQLInternal(text, o) == [ok |-> o.ok, rows |-> IF o.ok THEN o.rows ELSE {}]

\* The differential store (Query::addNewResults): load the baseline of key
\* (absent counts as empty), compute the delta by whole-row equality and
\* persist the new rows; a backend read or write failure returns an error
\* and leaves the baseline as it was.
addNewResults(key, rows, store, fault) ==
  LET old == IF store[key].found THEN store[key].rows ELSE {}
      diff == [added |-> rows \ old, removed |-> old \ rows]
  IN  CASE fault = "read" ->
             [ok |-> FALSE, diff |-> EmptyDiff, db |-> store,
              read |-> TRUE, wrote |-> FALSE]
        [] fault = "write" ->
             [ok |-> FALSE, diff |-> diff, db |-> store,
              read |-> TRUE, wrote |-> FALSE]
        [] OTHER ->
             [ok |-> TRUE, diff |-> diff,
              db |-> [store EXCEPT ![key] = [found |-> TRUE, rows |-> rows]],
              read |-> TRUE, wrote |-> TRUE]

\* osquery::interruptableSleep: returns when the time has elapsed, or ends
\* early by raising the thread interruption when a cancellation is pending.
interruptableSleep(cancel) == IF cancel THEN "interrupted" ELSE "elapsed"

\* ------------------------------------------------------------ scheduler.cpp
\* A slip: the result of the query given up when a process sample is missing.
monitorNeedsSamples(name, query, o) ==
  [sql |-> IF o.r0 /\ o.r1 THEN SQLInternal(query.query, o)
                           ELSE [ok |-> FALSE, rows |-> {}],
   executions |-> 1,
   perf |-> o.r0 /\ o.r1]

\* monitor(): runs the query once between two samples of the process row and
\* records the performance when both samples were obtained.
monitor(name, query, o) ==
  [sql |-> SQLInternal(query.query, o),
   executions |-> 1,
   perf |-> o.r0 /\ o.r1]

\* A slip: the snapshot test written like the test of "removed".
IsSnapshotNegated(options) ==
  "snapshot" \in DOMAIN options /\ ~options["snapshot"]

\* query.options.count("snapshot") && query.options.at("snapshot")
IsSnapshot(options) ==
  "snapshot" \in DOMAIN options /\ options["snapshot"]

\* A slip: the test of "removed" without its negation.
RemovedSuppressedPositive(options) ==
  "removed" \in DOMAIN options /\ options["removed"]

\* query.options.count("removed") && !query.options.at("removed")
RemovedSuppressed(options) ==
  "removed" \in DOMAIN options /\ ~options["removed"]

\* A slip: the database-backed query keyed by the query text.
StoreKeyByText(name, query) == query.query

\* Query(name, query): the database-backed query is keyed by the query name.
StoreKey(name, query) == name

\* The store as seen by a launchQuery call that does not reach it.
Untouched(store) ==
  [ok |-> TRUE, diff |-> EmptyDiff, db |-> store,
   read |-> FALSE, wrote |-> FALSE]

\* The effects of one launchQuery call: the backend it leaves, and what it
\* did (executions, performance record, store access, items sent to the
\* snapshot sink and to the differential sink, errors logged).
Effects(name, query, store, sql, perf, st, snapshotLog, resultLog, errors) ==
  [db  |-> st.db,
   obs |-> [name |-> name, query |-> query, ok |-> sql.ok, rows |-> sql.rows,
            executions |-> 1, perf |-> perf,
            read |-> st.read, wrote |-> st.wrote, dbok |-> st.ok,
            diff |-> IF st.ok THEN st.diff ELSE EmptyDiff,
            before |-> store[name],
            snapshotLog |-> snapshotLog, resultLog |-> resultLog,
            errors |-> errors]]

\* A slip: the status of addNewResults is not tested.
launchDifferentialNoStatusCheck(name, query, store, sql, perf, sink) ==
  LET item == NewItem(name)
  IN  IF sql.st.diff.added = {} /\ sql.st.diff.removed = {}
        THEN Effects(name, query, store, sql, perf, sql.st, <<>>, <<>>, {})
      ELSE
        Effects(name, query, store, sql, perf, sql.st, <<>>,
                <<[item EXCEPT !.results =
                     IF RemovedSuppressed(query.options)
                       THEN [sql.st.diff EXCEPT !.removed = {}]
                       ELSE sql.st.diff]>>,
                IF sink THEN {} ELSE {"logger"})

\* A slip: the test for an empty delta is missing.
launchDifferentialNoEmptyCheck(name, query, store, sql, perf, sink) ==
  LET item == NewItem(name)
  IN  IF ~sql.st.ok
        THEN Effects(name, query, store, sql, perf, sql.st,
                     <<>>, <<>>, {"database"})
      ELSE
        Effects(name, query, store, sql, perf, sql.st, <<>>,
                <<[item EXCEPT !.results =
                     IF RemovedSuppressed(query.options)
                       THEN [sql.st.diff EXCEPT !.removed = {}]
                       ELSE sql.st.diff]>>,
                IF sink THEN {} ELSE {"logger"})

\* A slip: the differential item also given the rows of the execution.
launchDifferentialWithRows(name, query, store, sql, perf, sink) ==
  LET item == [NewItem(name) EXCEPT !.snapshot_results = sql.rows]
  IN  IF ~sql.st.ok
        THEN Effects(name, query, store, sql, perf, sql.st,
                     <<>>, <<>>, {"database"})
      ELSE IF sql.st.diff.added = {} /\ sql.st.diff.removed = {}
        THEN Effects(name, query, store, sql, perf, sql.st, <<>>, <<>>, {})
      ELSE
        Effects(name, query, store, sql, perf, sql.st, <<>>,
                <<[item EXCEPT !.results =
                     IF RemovedSuppressed(query.options)
                       THEN [sql.st.diff EXCEPT !.removed = {}]
                       ELSE sql.st.diff]>>,
                IF sink THEN {} ELSE {"logger"})

\* The part of launchQuery after a successful execution of a differential
\* query: store the rows, and log the delta unless it is empty.
launchDifferential(name, query, store, sql, perf, sink) ==
  LET item == NewItem(name)
  IN  IF ~sql.st.ok
        THEN Effects(name, query, store, sql, perf, sql.st,
                     <<>>, <<>>, {"database"})
      ELSE IF sql.st.diff.added = {} /\ sql.st.diff.removed = {}
        THEN Effects(name, query, store, sql, perf, sql.st, <<>>, <<>>, {})
      ELSE
        Effects(name, query, store, sql, perf, sql.st, <<>>,
                <<[item EXCEPT !.results =
                     IF RemovedSuppressed(query.options)
                       THEN [sql.st.diff EXCEPT !.removed = {}]
                       ELSE sql.st.diff]>>,
                IF sink THEN {} ELSE {"logger"})

\* A slip: sql.ok() is not tested, the rows of a failed execution are used.
launchQueryNoOkCheck(name, query, store, mon, o) ==
  LET sql  == IF mon THEN monitor(name, query, o).sql
                     ELSE SQLInternal(query.query, o)
      perf == mon /\ monitor(name, query, o).perf
      item == NewItem(name)
  IN  IF IsSnapshot(query.options)
        THEN Effects(name, query, store, sql, perf, Untouched(store),
                     <<[item EXCEPT !.snapshot_results = sql.rows]>>,
                     <<>>, {})
      ELSE
        launchDifferential(
          name, query, store,
          [ok |-> sql.ok, rows |-> sql.rows,
           st |-> addNewResults(StoreKey(name, query), sql.rows, store,
                                o.fault)],
          perf, o.sink)

\* launchQuery(name, query): the effects of one call, for the outcome o of
\* its collaborators (execution, process samples, store, sink).
launchQuery(name, query, store, mon, o) ==
  LET sql  == IF mon THEN monitor(name, query, o).sql
                     ELSE SQLInternal(query.query, o)
      perf == mon /\ monitor(name, query, o).perf
      item == NewItem(name)
  IN  IF ~sql.ok
        THEN Effects(name, query, store, sql, perf, Untouched(store),
                     <<>>, <<>>, {"execute"})
      ELSE IF IsSnapshot(query.options)
        THEN Effects(name, query, store, sql, perf, Untouched(store),
                     <<[item EXCEPT !.snapshot_results = sql.rows]>>,
                     <<>>, {})
      ELSE
        launchDifferential(
          name, query, store,
          [ok |-> sql.ok, rows |-> sql.rows,
           st |-> addNewResults(StoreKey(name, query), sql.rows, store,
                                o.fault)],
          perf, o.sink)

\* A slip: the due-check made on the tick after.
DueNextTick(tick, query) == (tick + 1) % query.splayed_interval = 0

\* i % query.second.splayed_interval == 0
Due(tick, query) == tick % query.splayed_interval = 0

\* The outcomes the collaborators of one launchQuery call can have: the
\* execution fails, or returns rows and then the store fails on its read or
\* on its write, or stores and then the sink accepts or rejects the item.
\* The two process samples are taken only when the monitor is enabled.
AllOutcomes ==
  { o \in [ok : BOOLEAN, rows : RowSets, r0 : BOOLEAN, r1 : BOOLEAN,
           fault : {"none", "read", "write"}, sink : BOOLEAN] :
      /\ ~o.ok => (o.rows = {} /\ o.fault = "none" /\ o.sink)
      /\ o.fault # "none" => o.sink }
PlainOutcomes == { o \in AllOutcomes : o.r0 /\ o.r1 }
Outcomes(mon) == IF mon THEN AllOutcomes ELSE PlainOutcomes

\* A slip: the loop condition without the "0 for no limit" case.
LoopCondNoUnbounded(t, tick) == tick <= t

\* The loop condition of start(): (timeout_ == 0) || (i <= timeout_)
LoopCond(t, tick) == (t = 0) \/ (tick <= t)

\* A slip: the interruption swallowed, the loop going on to the next tick.
AfterSleepResume(outcome, tick) ==
  [pc |-> "check", i |-> tick + 1, exitBy |-> "none"]

\* What start() does when interruptableSleep ends: the interruption is not
\* caught, so it leaves the loop; otherwise ++i and the condition is tested.
AfterSleep(outcome, tick) ==
  IF outcome = "interrupted"
    THEN [pc |-> "done", i |-> tick, exitBy |-> "interrupted"]
    ELSE [pc |-> "check", i |-> tick + 1, exitBy |-> "none"]

\* What is recorded of one launchQuery call: its effects obs, together with
\* what its collaborators answered: the result of the execution, whether
\* both process samples could be had, and whether the sink rejected the item.
Observed(obs, query, o) ==
  obs @@ [exec        |-> SQLInternal(query.query, o),
          bothSamples |-> o.r0 /\ o.r1,
          rejected    |-> /\ Len(obs.snapshotLog) + Len(obs.resultLog) > 0
                          /\ ~o.sink]

\* ------------------------------------------------------------- requests.h
\* osquery::Status: a code and a message; ok() is code == 0.
StatusOK == [code |-> 0, message |-> "OK"]
SerializerErrors == {[code |-> 1, message |-> "serialize"]}
TransportStatuses == {StatusOK, [code |-> 1, message |-> "send"]}

\* The property trees given to call: a few keys, each with a value.
ParamKeys == <<"a", "b">>
ParamValues == {"x", "y"}
Ptrees ==
  UNION { [d -> ParamValues] :
            d \in SUBSET {ParamKeys[k] : k \in DOMAIN ParamKeys} }

\* The text a serializer makes of a property tree: its keys in order, each
\* followed by its value.
Encode(params) ==
  LET ks == SelectSeq(ParamKeys, LAMBDA k : k \in DOMAIN params)
  IN  [j \in 1..(2 * Len(ks)) |->
         IF j % 2 = 1 THEN ks[(j + 1) \div 2] ELSE params[ks[j \div 2]]]

\* What one serialize call can do: succeed, or fail leaving the out-string
\* empty or partly written.
SerializerOutcomes ==
  {[status |-> StatusOK, partial |-> <<>>]}
    \cup [status : SerializerErrors, partial : {<<>>, <<"a">>}]

\* Serializer::serialize(params, serialized): the status and the out-string.
serialize(params, so) ==
  [status     |-> so.status,
   serialized |-> IF so.status.code = 0 THEN Encode(params) ELSE so.partial]

\* Transport::sendRequest(params): the transport answers with its status.
sendRequest(body, to) == to

\* A slip: the status of serialize is not tested, the request always sent.
callNoStatusCheck(params, so, to) ==
  LET s == serialize(params, so)
  IN  [ret  |-> sendRequest(s.serialized, to),
       sent |-> <<s.serialized>>]

\* Request::call(params): serialize, return the failing status, else send.
call(params, so, to) ==
  LET s == serialize(params, so)
  IN  IF s.status.code # 0
        THEN [ret |-> s.status, sent |-> <<>>]
        ELSE [ret  |-> sendRequest(s.serialized, to),
              sent |-> <<s.serialized>>]

\* A Request on which call has not been invoked yet.
RequestIdle ==
  /\ calls = 0
  /\ callParams = <<>>
  /\ serializerAnswer = serialize(<<>>, [status |-> StatusOK, partial |-> <<>>])
  /\ transportAnswer = StatusOK
  /\ sent = <<>>
  /\ ret = StatusOK

\* ------------------------------------- several runners, one differential store
\* The SchedulerRunner services; each runs start() on a thread of its own.
Runners == 1..MaxRunners

\* The query every runner finds in the schedule, and its key in the store.
SharedName == "q1"
TxKey == StoreKey(SharedName, schedule[SharedName])

NoTxn ==
  [done |-> FALSE, rows |-> {}, overtaken |-> FALSE, before |-> NoRows,
   fault |-> "none", ok |-> FALSE, diff |-> EmptyDiff]

\* A slip: the baseline is the one loaded when launchQuery began, outside
\* the transaction that persists the new rows.
TxStoreEarly(r) == [db EXCEPT ![TxKey] = began[r]]

\* The store that addNewResults works on: load, delta and persist are one
\* transaction, so the baseline is the one in the store when it persists.
TxStore(r) == db

\* No runner registered yet.
RunnersIdle ==
  /\ runners = 0
  /\ rpc = [r \in Runners |-> "idle"]
  /\ rrows = [r \in Runners |-> {}]
  /\ began = [r \in Runners |-> NoRows]
  /\ txn = NoTxn

\* ------------------------------------------------------------------ Init
NoLaunch ==
  Observed(
    Effects("none", SQ(1, NoOptions), [n \in {"none"} |-> EmptyStore["q1"]],
            [ok |-> FALSE, rows |-> {}], FALSE,
            Untouched(EmptyStore), <<>>, <<>>, {}).obs,
    SQ(1, NoOptions),
    [ok |-> FALSE, rows |-> {}, r0 |-> TRUE, r1 |-> TRUE, fault |-> "none",
     sink |-> TRUE])

Init ==
  /\ timeout_ \in 0..MaxTimeout
  /\ enable_monitor \in BOOLEAN
  /\ schedule \in Schedules
  /\ db = EmptyStore
  /\ pc = "init"
  /\ i = 0
  /\ cursor = 1
  /\ snap = NoSchedule
  /\ held = FALSE
  /\ interrupted = FALSE
  /\ exitBy = "none"
  /\ ticks = 0
  /\ launched = [n \in NameSet |-> 0]
  /\ failed = {}
  /\ last = NoLaunch
  /\ lastGood = [n \in NameSet |-> NoRows]
  /\ seen = [n \in NameSet |-> NoRows]
  /\ prev = NoRows
  /\ intrAtSleep = FALSE
  /\ RequestIdle
  /\ RunnersIdle

\* --------------------------------------------------------------- actions
\* start(): i = local->tm_sec, the wall-clock second of the minute.
StartEnter ==
  /\ pc = "init"
  /\ \E sec \in 0..MaxSec : i' = sec
  /\ pc' = "check"
  /\ UNCHANGED sideVars
  /\ UNCHANGED <<timeout_, enable_monitor, schedule, db, cursor, snap, held,
                 interrupted, exitBy, ticks, launched, failed, last,
                 lastGood, seen, prev, intrAtSleep>>

\* The loop condition holds: a tick begins by taking a ConfigDataInstance.
TickBegin ==
  /\ pc = "check"
  /\ LoopCond(timeout_, i)
  /\ ticks < MaxTicks
  /\ pc' = "scan"
  /\ snap' = schedule
  /\ held' = TRUE
  /\ cursor' = 1
  /\ ticks' = ticks + 1
  /\ UNCHANGED sideVars
  /\ UNCHANGED <<timeout_, enable_monitor, schedule, db, i, interrupted,
                 exitBy, launched, failed, last,
                 lastGood, seen, prev, intrAtSleep>>

\* The loop condition fails: start() returns.
LoopExit ==
  /\ pc = "check"
  /\ ~LoopCond(timeout_, i)
  /\ pc' = "done"
  /\ exitBy' = "timeout"
  /\ UNCHANGED sideVars
  /\ UNCHANGED <<timeout_, enable_monitor, schedule, db, i, cursor, snap,
                 held, interrupted, ticks, launched, failed, last,
                 lastGood, seen, prev, intrAtSleep>>

\* The range-for meets a query that is not due at this tick.
ScanSkip ==
  /\ pc = "scan"
  /\ cursor <= Len(ScheduleOrder(snap))
  /\ ~Due(i, snap[ScheduleOrder(snap)[cursor]])
  /\ cursor' = cursor + 1
  /\ UNCHANGED sideVars
  /\ UNCHANGED <<timeout_, enable_monitor, schedule, db, pc, i, snap, held,
                 interrupted, exitBy, ticks, launched, failed, last,
                 lastGood, seen, prev, intrAtSleep>>

\* The range-for meets a due query and calls launchQuery for it.
ScanLaunch ==
  /\ pc = "scan"
  /\ cursor <= Len(ScheduleOrder(snap))
  /\ LET name  == ScheduleOrder(snap)[cursor]
         query == snap[name]
     IN  /\ Due(i, query)
         /\ \E o \in Outcomes(enable_monitor) :
              LET eff == launchQuery(name, query, db, enable_monitor, o)
              IN  /\ db' = eff.db
                  /\ last' = Observed(eff.obs, query, o)
                  /\ failed' = IF last'.ok THEN failed
                                           ELSE failed \cup {name}
                  /\ lastGood' = IF last'.ok /\ last'.wrote
                                   THEN [lastGood EXCEPT ![name] =
                                           [found |-> TRUE,
                                            rows |-> last'.rows]]
                                   ELSE lastGood
                  /\ seen' = IF last'.snapshotLog # <<>>
                               THEN [seen EXCEPT ![name] =
                                       [found |-> TRUE,
                                        rows |-> last'.snapshotLog[1]
                                                   .snapshot_results]]
                               ELSE seen
         /\ prev' = seen[name]
         /\ launched' = [launched EXCEPT ![name] = @ + 1]
  /\ cursor' = cursor + 1
  /\ UNCHANGED sideVars
  /\ UNCHANGED <<timeout_, enable_monitor, schedule, pc, i, snap, held,
                 interrupted, exitBy, ticks, intrAtSleep>>

\* A slip: the ConfigDataInstance outlives the scan and is held in the sleep.
ScanEndHolding ==
  /\ pc = "scan"
  /\ cursor > Len(ScheduleOrder(snap))
  /\ pc' = "sleep"
  /\ launched' = [n \in NameSet |-> 0]
  /\ failed' = {}
  /\ last' = NoLaunch
  /\ prev' = NoRows
  /\ UNCHANGED sideVars
  /\ UNCHANGED <<timeout_, enable_monitor, schedule, db, i, cursor, snap,
                 held, interrupted, exitBy, ticks, lastGood, seen,
                 intrAtSleep>>

\* The range-for is over: the ConfigDataInstance goes out of scope and the
\* thread enters interruptableSleep.  The observation of the tick ends here.
ScanEnd ==
  /\ pc = "scan"
  /\ cursor > Len(ScheduleOrder(snap))
  /\ held' = FALSE
  /\ snap' = NoSchedule
  /\ pc' = "sleep"
  /\ launched' = [n \in NameSet |-> 0]
  /\ failed' = {}
  /\ last' = NoLaunch
  /\ prev' = NoRows
  /\ UNCHANGED sideVars
  /\ UNCHANGED <<timeout_, enable_monitor, schedule, db, i, cursor,
                 interrupted, exitBy, ticks, lastGood, seen, intrAtSleep>>

\* interruptableSleep ends, by the time elapsing or by the interruption.
SleepEnd ==
  /\ pc = "sleep"
  /\ LET nxt == AfterSleep(interruptableSleep(interrupted), i)
     IN  /\ pc' = nxt.pc
         /\ i' = nxt.i
         /\ exitBy' = nxt.exitBy
  /\ UNCHANGED sideVars
  /\ UNCHANGED <<timeout_, enable_monitor, schedule, db, cursor, snap, held,
                 interrupted, ticks, launched, failed, last,
                 lastGood, seen, prev, intrAtSleep>>

\* The host process requests the cancellation of the scheduler thread.
Interrupt ==
  /\ pc \notin {"init", "done"}
  /\ ~interrupted
  /\ interrupted' = TRUE
  /\ intrAtSleep' = (pc = "sleep")
  /\ UNCHANGED sideVars
  /\ UNCHANGED <<timeout_, enable_monitor, schedule, db, pc, i, cursor, snap,
                 held, exitBy, ticks, launched, failed, last, lastGood, seen, prev>>

\* The configuration provider replaces the schedule; it cannot do so while
\* a ConfigDataInstance is alive.
ConfigUpdate ==
  /\ pc # "done"
  /\ ~held
  /\ \E s \in Schedules \ {schedule} : schedule' = s
  /\ UNCHANGED sideVars
  /\ UNCHANGED <<timeout_, enable_monitor, db, pc, i, cursor, snap, held,
                 interrupted, exitBy, ticks, launched, failed, last,
                 lastGood, seen, prev, intrAtSleep>>

Next ==
  \/ StartEnter
  \/ TickBegin
  \/ LoopExit
  \/ ScanSkip
  \/ ScanLaunch
  \/ ScanEnd
  \/ SleepEnd
  \/ Interrupt
  \/ ConfigUpdate

Spec == Init /\ [][Next]_vars

\* ------------------------------------------------- Request::call on its own
\* The scheduler loop before start() is entered.
LoopIdle ==
  /\ timeout_ = 0
  /\ enable_monitor = FALSE
  /\ pc = "init"
  /\ i = 0
  /\ cursor = 1
  /\ snap = NoSchedule
  /\ held = FALSE
  /\ interrupted = FALSE
  /\ exitBy = "none"
  /\ ticks = 0
  /\ launched = [n \in NameSet |-> 0]
  /\ failed = {}
  /\ last = NoLaunch
  /\ lastGood = [n \in NameSet |-> NoRows]
  /\ seen = [n \in NameSet |-> NoRows]
  /\ prev = NoRows
  /\ intrAtSleep = FALSE

RequestInit ==
  /\ LoopIdle
  /\ schedule \in Schedules
  /\ db = EmptyStore
  /\ RequestIdle
  /\ RunnersIdle

\* One invocation of call(params), for the answers of the serializer and of
\* the transport.
RequestCall ==
  /\ calls < MaxCalls
  /\ \E params \in Ptrees, so \in SerializerOutcomes,
        to \in TransportStatuses :
       LET res == call(params, so, to)
       IN  /\ callParams' = params
           /\ serializerAnswer' = serialize(params, so)
           /\ transportAnswer' = to
           /\ sent' = res.sent
           /\ ret' = res.ret
  /\ calls' = calls + 1
  /\ UNCHANGED <<loopVars, db, runnerVars>>

RequestNext == RequestCall

RequestSpec == RequestInit /\ [][RequestNext]_vars

\* ---------------------------------------- several runners taking their turns
RunnersInit ==
  /\ LoopIdle
  /\ schedule = LoadSchedule(CHOOSE raw \in RawSchedules :
                               \A n \in DOMAIN raw :
                                 raw[n].splayed_interval > 0)
  /\ db = EmptyStore
  /\ RequestIdle
  /\ RunnersIdle

\* startScheduler(timeout, interval): one more SchedulerRunner is added to the
\* Dispatcher's services.
Register ==
  /\ runners < MaxRunners
  /\ runners' = runners + 1
  /\ UNCHANGED <<loopVars, db, requestVars, rpc, rrows, began, txn>>

\* A runner's launchQuery executes the query; a failed execution returns
\* without reaching the store, a successful one goes on with its rows.
RunnerExecute(r) ==
  /\ r <= runners
  /\ rpc[r] = "idle"
  /\ \E rows \in RowSets :
       LET sql == SQLInternal(schedule[SharedName].query,
                              [ok |-> TRUE, rows |-> rows])
       IN  rrows' = [rrows EXCEPT ![r] = sql.rows]
  /\ rpc' = [rpc EXCEPT ![r] = "ran"]
  /\ began' = [began EXCEPT ![r] = db[TxKey]]
  /\ UNCHANGED <<loopVars, db, requestVars, runners, txn>>

\* The runner's launchQuery calls addNewResults with its rows.
RunnerStore(r) ==
  /\ r <= runners
  /\ rpc[r] = "ran"
  /\ \E fault \in {"none", "read", "write"} :
       LET st == addNewResults(TxKey, rrows[r], TxStore(r), fault)
       IN  /\ db' = st.db
           /\ txn' = [done |-> TRUE, rows |-> rrows[r],
                      overtaken |-> began[r].rows # db[TxKey].rows,
                      before |-> db[TxKey], fault |-> fault, ok |-> st.ok,
                      diff |-> st.diff]
  /\ rpc' = [rpc EXCEPT ![r] = "idle"]
  /\ rrows' = [rrows EXCEPT ![r] = {}]
  /\ began' = [began EXCEPT ![r] = NoRows]
  /\ UNCHANGED <<loopVars, requestVars, runners>>

RunnersNext ==
  \/ Register
  \/ \E r \in Runners : RunnerExecute(r)
  \/ \E r \in Runners : RunnerStore(r)

RunnersSpec == RunnersInit /\ [][RunnersNext]_vars


\* ------------------------------------------------------------- properties
\* The baseline a record stands for: an absent baseline counts as empty.
RowsOf(b) == IF b.found THEN b.rows ELSE {}

\* The scan of the current tick has passed every query of the snapshot.
ScanOver == pc = "scan" /\ cursor > Len(ScheduleOrder(snap))

\* C1: during a tick i, a query of the schedule snapshot is launched exactly
\* once if i mod its splayed interval is 0 and not at all otherwise: the
\* queries the scan has passed have been launched once when due and never
\* when not due, and the queries it has not reached have not been launched.
LaunchedIffDue ==
  pc = "scan" =>
    /\ \A k \in 1..Len(ScheduleOrder(snap)) :
         LET n == ScheduleOrder(snap)[k]
         IN  launched[n] =
               IF k < cursor /\ i % snap[n].splayed_interval = 0
                 THEN 1 ELSE 0
    /\ \A n \in NameSet \ DOMAIN snap : launched[n] = 0

LaunchedIffDueWitness ==
  /\ ScanOver
  /\ \E n \in DOMAIN snap :
       i % snap[n].splayed_interval = 0 /\ launched[n] = 1
  /\ \E n \in DOMAIN snap :
       i % snap[n].splayed_interval # 0 /\ launched[n] = 0

\* C2: started with a positive timeout T and never cancelled, the loop has
\* performed exactly T tick iterations when it exits, whatever the second of
\* the minute was at the entry of start().
TimeoutTicksExact ==
  (pc = "done" /\ ~interrupted /\ timeout_ > 0) => ticks = timeout_

\* C3: the loop never ends by itself: with timeout 0 and no cancellation it
\* does not exit, whatever errors the queries, the store and the sinks have
\* had; it ends only by a cancellation or by the exhaustion of a positive
\* timeout.
OnlyCancelOrTimeoutEnds ==
  /\ (timeout_ = 0 /\ ~interrupted) => pc # "done"
  /\ pc = "done" =>
       \/ exitBy = "interrupted" /\ interrupted
       \/ exitBy = "timeout" /\ timeout_ > 0 /\ i > timeout_

OnlyCancelOrTimeoutEndsWitness ==
  /\ timeout_ = 0
  /\ ~interrupted
  /\ ticks >= 2
  /\ ScanOver
  /\ failed # {}
  /\ last.errors \cap {"database", "logger"} # {}

\* C4: once a cancellation has arrived during the inter-tick sleep, the
\* loop only exits: the sleep does not complete, the tick counter does not
\* advance, no further tick begins, no query is launched and the store is
\* not touched.
CancelInSleepExits ==
  [][ /\ intrAtSleep' => pc' \in {"sleep", "done"}
      /\ intrAtSleep =>
           /\ pc' \in {"sleep", "done"}
           /\ pc' = "done" => exitBy' = "interrupted"
           /\ i' = i
           /\ ticks' = ticks
           /\ launched' = launched
           /\ db' = db ]_vars

CancelInSleepExitsWitness ==
  intrAtSleep /\ pc = "done" /\ exitBy = "interrupted" /\ ticks >= 1

\* C5: a launchQuery whose execution fails sends nothing to either sink and
\* neither reads nor writes the baseline of its query, and the due queries
\* that come later in the schedule of the same tick are still launched.
FailedExecutionIsolated ==
  /\ (last.name # "none" /\ ~last.ok) =>
       /\ last.snapshotLog = <<>>
       /\ last.resultLog = <<>>
       /\ ~last.read
       /\ ~last.wrote
       /\ db[last.name] = last.before
  /\ (ScanOver /\ failed # {}) =>
       \A n \in DOMAIN snap :
         i % snap[n].splayed_interval = 0 => launched[n] = 1

FailedExecutionIsolatedWitness ==
  /\ ScanOver
  /\ failed = {"q1"}
  /\ db["q1"].found
  /\ db["q1"].rows # {}
  /\ last.name = "q2"
  /\ launched["q2"] = 1

\* C6: when addNewResults returns an error, the run sends no item to a sink
\* and the baseline of the query is after the run what it was before it.
StoreErrorSkipsEmission ==
  (last.name # "none" /\ last.ok /\ ~last.dbok) =>
    /\ last.resultLog = <<>>
    /\ last.snapshotLog = <<>>
    /\ db[last.name] = last.before

StoreErrorSkipsEmissionWitness ==
  /\ last.name # "none"
  /\ ~last.dbok
  /\ last.before.found
  /\ last.rows \ last.before.rows # {}

\* C7: a successful addNewResults returns added = new minus old and
\* removed = old minus new, old being the baseline stored for the name
\* (empty when absent); added and removed are disjoint and a row of both
\* old and new is in neither.
DiffIsSetDifference ==
  (last.name # "none" /\ last.ok /\ last.wrote) =>
    LET old == RowsOf(last.before)
        new == last.rows
    IN  /\ last.diff.added = new \ old
        /\ last.diff.removed = old \ new
        /\ last.diff.added \cap last.diff.removed = {}
        /\ \A r \in old \cap new :
             r \notin last.diff.added \cup last.diff.removed

DiffIsSetDifferenceWitness ==
  /\ last.name # "none"
  /\ last.wrote
  /\ last.before = [found |-> TRUE, rows |-> {"A", "B"}]
  /\ last.rows = {"A"}
  /\ last.diff = [added |-> {}, removed |-> {"B"}]

\* C8: the baseline stored for a name is the full row set of the most recent
\* run of that name that executed and stored successfully, absent when there
\* was none; such a run replaces it also when its delta is empty.
BaselineIsLastGoodRun ==
  /\ \A n \in NameSet : db[n] = lastGood[n]
  /\ (last.name # "none" /\ last.ok /\ last.wrote) =>
       db[last.name] = [found |-> TRUE, rows |-> last.rows]

BaselineIsLastGoodRunWitness ==
  /\ last.name # "none"
  /\ last.wrote
  /\ ~last.before.found
  /\ last.rows = {"A", "B"}
  /\ last.diff = [added |-> {"A", "B"}, removed |-> {}]
  /\ db[last.name] = [found |-> TRUE, rows |-> {"A", "B"}]
  /\ \E m \in NameSet \ {last.name} : db[m].found /\ db[m].rows = {"B"}

\* C9: a successful addNewResults on a name with the very row set of the
\* previous successful call on that name returns an empty added and an
\* empty removed, and leaves that row set as the baseline.
RepeatedRowsGiveEmptyDiff ==
  [][ \A n \in NameSet :
        ( /\ launched'[n] = launched[n] + 1
          /\ last'.name = n
          /\ last'.wrote
          /\ lastGood[n].found
          /\ lastGood[n].rows = last'.rows )
        => /\ last'.diff = EmptyDiff
           /\ db'[n] = [found |-> TRUE, rows |-> last'.rows] ]_vars

RepeatedRowsGiveEmptyDiffWitness ==
  /\ last.name # "none"
  /\ last.wrote
  /\ last.before.found
  /\ last.before.rows = last.rows
  /\ last.rows # {}
  /\ last.diff = EmptyDiff
  /\ last.resultLog = <<>>

\* C10: every successful execution of a query whose options have
\* snapshot = true sends exactly one item, carrying the full row set, to the
\* snapshot sink, also when the rows are those of the previous fire, and
\* the run neither reads nor writes the baseline of that name.
SnapshotAlwaysEmitsFullRows ==
  ( /\ last.name # "none"
    /\ last.ok
    /\ "snapshot" \in DOMAIN last.query.options
    /\ last.query.options["snapshot"] ) =>
    /\ last.snapshotLog =
         <<[name |-> last.name, results |-> EmptyDiff,
            snapshot_results |-> last.rows]>>
    /\ last.resultLog = <<>>
    /\ ~last.read
    /\ ~last.wrote
    /\ db[last.name] = last.before

SnapshotAlwaysEmitsFullRowsWitness ==
  /\ last.name # "none"
  /\ last.ok
  /\ Len(last.snapshotLog) = 1
  /\ prev = [found |-> TRUE, rows |-> {"A"}]
  /\ last.rows = {"A"}


\* The items the latest launchQuery call sent, to either sink.
ItemsSent ==
  {last.snapshotLog[k] : k \in 1..Len(last.snapshotLog)}
    \cup {last.resultLog[k] : k \in 1..Len(last.resultLog)}

\* The options of the latest launched query suppress the removed rows.
LastSuppressesRemoved ==
  /\ "removed" \in DOMAIN last.query.options
  /\ ~last.query.options["removed"]

\* C11: a run of a differential query whose new rows are the rows of the
\* stored baseline (a delta with empty added and empty removed) sends
\* nothing to a logging sink.
EmptyDeltaSendsNothing ==
  ( /\ last.name # "none"
    /\ last.ok
    /\ last.wrote
    /\ last.rows = RowsOf(last.before) ) =>
    /\ last.resultLog = <<>>
    /\ last.snapshotLog = <<>>
    /\ last.errors = {}

EmptyDeltaSendsNothingWitness ==
  /\ last.name # "none"
  /\ last.wrote
  /\ last.before = [found |-> TRUE, rows |-> {"A", "B"}]
  /\ last.rows = {"A", "B"}
  /\ ItemsSent = {}

\* C12: with removed = false the removed rows are cleared in the item sent
\* only: the store has computed the full delta and persisted the full new
\* row set, which is the baseline of the next run of the query.
RemovedSuppressedInItemOnly ==
  ( /\ last.name # "none"
    /\ last.ok
    /\ last.wrote
    /\ LastSuppressesRemoved ) =>
    /\ db[last.name] = [found |-> TRUE, rows |-> last.rows]
    /\ lastGood[last.name] = db[last.name]
    /\ last.diff.removed = RowsOf(last.before) \ last.rows
    /\ \A k \in 1..Len(last.resultLog) :
         /\ last.resultLog[k].results.removed = {}
         /\ last.resultLog[k].results.added = last.rows \ RowsOf(last.before)

RemovedSuppressedInItemOnlyWitness ==
  /\ LastSuppressesRemoved
  /\ last.wrote
  /\ last.before = [found |-> TRUE, rows |-> {"A", "B"}]
  /\ last.rows = {"A"}
  /\ Len(last.resultLog) = 1
  /\ last.resultLog[1].results.removed = {}
  /\ last.diff.removed = {"B"}
  /\ db[last.name] = [found |-> TRUE, rows |-> {"A"}]

\* C13 (as stated): every item handed to a sink has exactly one of its two
\* payloads populated: snapshot rows, or a delta with a row in it.
ExactlyOnePayload ==
  \A it \in ItemsSent :
    (it.snapshot_results # {}) # (it.results # EmptyDiff)

\* C13 (amended): no item handed to a sink has both payloads populated: an
\* item sent to the snapshot sink has an empty delta, an item sent to the
\* differential sink has no snapshot rows; both payloads can be empty.
NeverBothPayloads ==
  /\ \A k \in 1..Len(last.snapshotLog) :
       last.snapshotLog[k].results = EmptyDiff
  /\ \A k \in 1..Len(last.resultLog) :
       last.resultLog[k].snapshot_results = {}
  /\ \A it \in ItemsSent :
       ~(it.snapshot_results # {} /\ it.results # EmptyDiff)

NeverBothPayloadsWitness ==
  /\ Len(last.snapshotLog) = 1
  /\ last.snapshotLog[1].snapshot_results = {}
  /\ last.snapshotLog[1].results = EmptyDiff
  /\ \E n \in NameSet : db[n].found /\ db[n].rows # {}

\* C19 (as stated): every item sent to the differential sink carries at
\* least one row in added or in removed.
DiffItemNeverEmpty ==
  \A k \in 1..Len(last.resultLog) :
    last.resultLog[k].results.added \cup last.resultLog[k].results.removed
      # {}

\* C19 (amended): every item sent to the differential sink comes from a run
\* whose delta, as computed by the store, has a row in added or in removed;
\* the item carries that added set, and that removed set unless
\* removed = false, in which case its removed set is empty, so that the item
\* of a run that only removed rows carries no row at all.
DiffItemFromNonEmptyDelta ==
  \A k \in 1..Len(last.resultLog) :
    LET old == RowsOf(last.before)
        res == last.resultLog[k].results
    IN  /\ (last.rows \ old) \cup (old \ last.rows) # {}
        /\ res.added = last.rows \ old
        /\ res.removed = IF LastSuppressesRemoved THEN {} ELSE old \ last.rows

DiffItemFromNonEmptyDeltaWitness ==
  /\ Len(last.resultLog) = 1
  /\ last.resultLog[1].results = EmptyDiff
  /\ last.diff.added = {}
  /\ last.diff.removed # {}


\* C15 (as stated): when a sink rejects an item, snapshot or differential,
\* the failure is logged, the item is sent once only, and the scan goes on
\* with the queries that are due.
SinkFailureReported ==
  /\ last.rejected =>
       /\ "logger" \in last.errors
       /\ Len(last.snapshotLog) + Len(last.resultLog) = 1
  /\ (ScanOver /\ last.rejected) =>
       \A n \in DOMAIN snap :
         launched[n] = IF i % snap[n].splayed_interval = 0 THEN 1 ELSE 0

\* C17: the monitor is transparent: with it or without it the query is
\* executed once and launchQuery goes on with the very result of that
\* execution, error or rows, also when a process sample is missing; the
\* performance is recorded exactly when the monitor is enabled and both
\* samples were obtained.
MonitorIsTransparent ==
  last.name # "none" =>
    /\ last.executions = 1
    /\ last.ok = last.exec.ok
    /\ last.rows = last.exec.rows
    /\ last.perf = (enable_monitor /\ last.bothSamples)
    /\ last.ok =>
         \/ Len(last.snapshotLog) = 1 /\ last.snapshotLog[1].snapshot_results
                                           = last.exec.rows
         \/ last.read /\ (last.wrote => db[last.name].rows = last.exec.rows)

MonitorIsTransparentWitness ==
  /\ enable_monitor
  /\ last.name # "none"
  /\ ~last.bothSamples
  /\ ~last.perf
  /\ last.ok
  /\ last.rows = {"A", "B"}
  /\ Len(last.resultLog) = 1
  /\ db[last.name].rows = {"A", "B"}


\* C14: the loop makes its due-check only on queries whose splayed interval
\* is positive: a query whose interval is not positive never is in the
\* schedule seen by a tick, so that i mod splayed_interval is defined.
NoUnschedulableQuery ==
  /\ \A n \in DOMAIN schedule : schedule[n].splayed_interval > 0
  /\ pc = "scan" => \A n \in DOMAIN snap : snap[n].splayed_interval > 0

NoUnschedulableQueryWitness ==
  /\ ScanOver
  /\ "q0" \notin DOMAIN snap
  /\ \E raw \in RawSchedules :
       /\ "q0" \in DOMAIN raw
       /\ raw["q0"].splayed_interval <= 0
       /\ \A n \in DOMAIN snap : snap[n] = raw[n]

\* C16: the schedule snapshot is held during the scan of a tick and at no
\* other time, it does not change during the scan, and the snapshot taken
\* at the start of a tick is the schedule the provider has at that moment,
\* so that a schedule replaced during the sleep is scanned by the next tick.
SnapshotScopedToTick ==
  [][ /\ held' = (pc' = "scan")
      /\ pc' # "scan" => snap' = NoSchedule
      /\ (pc = "scan" /\ pc' = "scan") => snap' = snap
      /\ (pc # "scan" /\ pc' = "scan") => snap' = schedule ]_vars

SnapshotScopedToTickWitness ==
  /\ pc = "scan"
  /\ ticks >= 2
  /\ seen["q2"].found
  /\ snap = schedule
  /\ "snapshot" \in DOMAIN snap["q2"].options
  /\ ~snap["q2"].options["snapshot"]

\* C18: load-baseline, compute-delta, persist is one transaction on a query
\* name: whatever the interleaving of the registered runners, the delta of a
\* run is computed against the baseline the store holds when that run
\* persists, which is what the latest persisting run of the name left; a
\* run that persisted leaves its own rows as the baseline.
StoreTransactionSerialized ==
  (txn.done /\ txn.fault # "read") =>
    /\ txn.diff = [added   |-> txn.rows \ RowsOf(txn.before),
                   removed |-> RowsOf(txn.before) \ txn.rows]
    /\ txn.ok => db[TxKey] = [found |-> TRUE, rows |-> txn.rows]
    /\ ~txn.ok => db[TxKey] = txn.before

StoreTransactionSerializedWitness ==
  /\ runners >= 2
  /\ txn.done
  /\ txn.ok
  /\ txn.overtaken
  /\ txn.diff.added # {}
  /\ txn.diff.removed # {}

\* C20: call(params) serializes and then sends: when serialize fails, call
\* returns that status and sendRequest is not invoked; when it succeeds,
\* sendRequest is invoked once, with the string the serializer wrote, and
\* call returns the transport's status.
CallSerializesThenSends ==
  calls > 0 =>
    IF serializerAnswer.status.code # 0
      THEN /\ ret = serializerAnswer.status
           /\ sent = <<>>
      ELSE /\ sent = <<serializerAnswer.serialized>>
           /\ ret = transportAnswer

CallSerializesThenSendsWitness ==
  /\ calls > 0
  /\ serializerAnswer.status.code # 0
  /\ serializerAnswer.serialized # <<>>
  /\ transportAnswer = StatusOK
  /\ ret # StatusOK
  /\ sent = <<>>

====
